---- MODULE Spec2Model ----
(***************************************************************************)
(* Model of the exam-verification backend (src/backend/server.js): the     *)
(* student sheet, the lookup, the POST /student upsert flow and the        *)
(* POST /student/update flow with the 12-hour retake cooldown.             *)
(*                                                                         *)
(* Strings are sequences of one-character strings, so that trim, the       *)
(* digit filter of normalizeMobileNumber and toLowerCase are computed      *)
(* character by character.  The clock counts half hours: the IST offset    *)
(* of 5h30 is 11 ticks and the cooldown of 12h is 24 ticks.  A timestamp   *)
(* string is the two-digit, zero-padded IST wall-clock tick followed by    *)
(* the character "+" that stands for the "+05:30" suffix.                   *)
(***************************************************************************)
EXTENDS Integers, Sequences, FiniteSets, TLC

VARIABLES sheet, now, req, initializationError, rangeStart, lastApproval

vars == <<sheet, now, req, initializationError, rangeStart, lastApproval>>

----------------------------------------------------------------------------
(* Bounds of the model *)

\* the last clock reading (half-hour ticks) a behaviour observes
MaxNow == 24
\* the sheet never grows beyond this many rows (header row included)
MaxRows == 3
\* number of requests that can be in flight together in ConcSpec
MaxInFlight == 2
\* longest phone-number string given to normalizeMobileNumber in NormSpec
MaxLen == 3

----------------------------------------------------------------------------
(* Program constants, in half-hour ticks *)

HOUR_MS == 2
TWELVE_HOURS_MS == 12 * HOUR_MS
istOffsetMs == 11

----------------------------------------------------------------------------
(* JavaScript values: undefined, null, booleans and strings.  s is the     *)
(* value's String() form.                                                  *)

Undef == [t |-> "undefined", s |-> <<>>]
Null == [t |-> "null", s |-> <<>>]
Str(s) == [t |-> "string", s |-> s]
Bool(b) == [t |-> "boolean", s |-> IF b THEN <<"t","r","u","e">> ELSE <<"f","a","l","s","e">>]

\* !value is false
Truthy(v) ==
  \/ v.t = "boolean" /\ v.s = <<"t","r","u","e">>
  \/ v.t = "string" /\ v.s # <<>>

\* value ?? ''
OrEmpty(v) == IF v.t \in {"undefined", "null"} THEN Str(<<>>) ELSE v

\* value || ''
OrEmptyFalsy(v) == IF Truthy(v) THEN v ELSE Str(<<>>)

----------------------------------------------------------------------------
(* String helpers *)

DigitChars == <<"0","1","2","3","4","5","6","7","8","9">>

IsDigit(c) == \E i \in 1..10 : DigitChars[i] = c

DigitVal(c) == (CHOOSE i \in 1..10 : DigitChars[i] = c) - 1

IsSpace(c) == c = " "

RECURSIVE TrimStart(_)
TrimStart(s) == IF s # <<>> /\ IsSpace(Head(s)) THEN TrimStart(Tail(s)) ELSE s

RECURSIVE TrimEnd(_)
TrimEnd(s) ==
  IF s # <<>> /\ IsSpace(s[Len(s)]) THEN TrimEnd(SubSeq(s, 1, Len(s) - 1)) ELSE s

\* String.prototype.trim
Trim(s) == TrimEnd(TrimStart(s))

LowerChar(c) ==
  CASE c = "Y" -> "y" [] c = "E" -> "e" [] c = "S" -> "s"
    [] c = "N" -> "n" [] c = "O" -> "o" [] OTHER -> c

\* String.prototype.toLowerCase
ToLowerCase(s) == [i \in 1..Len(s) |-> LowerChar(s[i])]

Yes == <<"Y","e","s">>
No == <<"N","o">>

normalizeYesNo(value) ==
  IF value.t = "boolean"
    THEN (IF Truthy(value) THEN Str(Yes) ELSE Str(No))
    ELSE IF value.t = "string"
      THEN (IF ToLowerCase(Trim(value.s)) = <<"y","e","s">> THEN Str(Yes) ELSE Str(No))
      ELSE Str(No)

\* mutant: only the spaces are stripped
normalizeMobileNumber_spacesOnly(mobileNo) ==
  IF ~Truthy(mobileNo) THEN <<>> ELSE SelectSeq(mobileNo.s, LAMBDA c : ~IsSpace(c))

\* mobileNo.toString().replace(/\D/g, ''), '' for a falsy argument
normalizeMobileNumber(mobileNo) ==
  IF ~Truthy(mobileNo) THEN <<>> ELSE SelectSeq(mobileNo.s, IsDigit)

----------------------------------------------------------------------------
(* Timestamps *)

\* `YYYY-..T..+05:30` of the instant t: the wall clock is shifted by the IST
\* offset, each component is zero-padded, the suffix names the offset
getCurrentISTTimestamp(t) ==
  LET istTime == t + istOffsetMs
  IN <<DigitChars[(istTime \div 10) + 1], DigitChars[(istTime % 10) + 1], "+">>

NullDate == [valid |-> FALSE, time |-> 0]

\* new Date(value) of a string with an explicit +05:30 offset is the instant
\* the wall clock minus the offset; any other string is an Invalid Date
parseIsoDate(value) ==
  IF ~Truthy(value) \/ value.t # "string"
    THEN NullDate
    ELSE IF /\ Len(value.s) = 3
            /\ IsDigit(value.s[1]) /\ IsDigit(value.s[2]) /\ value.s[3] = "+"
      THEN [valid |-> TRUE,
            time |-> 10 * DigitVal(value.s[1]) + DigitVal(value.s[2]) - istOffsetMs]
      ELSE NullDate

\* Math.ceil(a / b) for b > 0
Ceil(a, b) == IF a % b = 0 THEN a \div b ELSE (a \div b) + 1

----------------------------------------------------------------------------
(* The sheet: row 1 is the header row, every row has the 12 cells A..L     *)

HEADERS ==
  <<"Name", "MobileNo", "District", "State", "Paid", "FeeAmount",
    "Attempted", "RetakeAllowed", "LastApprovedAt", "", "", "CreatedAt">>

\* the keys of a student object: the named headers and the two reserved slots
Keys == {"Name", "MobileNo", "District", "State", "Paid", "FeeAmount",
         "Attempted", "RetakeAllowed", "LastApprovedAt", "_columnJ", "_columnK",
         "CreatedAt"}

\* the key under which mapRowToStudent stores column index (1-based here)
KeyAt(index) ==
  IF HEADERS[index] # "" THEN HEADERS[index]
  ELSE IF index = 10 THEN "_columnJ" ELSE "_columnK"

BlankRow == [i \in 1..12 |-> <<>>]

HeaderRow ==
  <<<<"N","a","m","e">>, <<"M","o","b","i","l","e","N","o">>,
    <<"D","i","s","t","r","i","c","t">>, <<"S","t","a","t","e">>,
    <<"P","a","i","d">>, <<"F","e","e">>, <<"A","t","t">>, <<"R","e","t">>,
    <<"L","a","s","t">>, <<>>, <<>>, <<"C","r","e","a","t","e","d">> >>

RECURSIVE StripTrailing(_, _)
\* drop the trailing elements equal to blank
StripTrailing(s, blank) ==
  IF s # <<>> /\ s[Len(s)] = blank
    THEN StripTrailing(SubSeq(s, 1, Len(s) - 1), blank)
    ELSE s

\* spreadsheets.values.get over A{start}:L: the rows from row start on,
\* trailing empty cells and trailing empty rows omitted
ValuesGet(sh, start) ==
  LET rows == [i \in 1..(IF Len(sh) >= start THEN Len(sh) - start + 1 ELSE 0) |->
                 StripTrailing(sh[i + start - 1], <<>>)]
  IN StripTrailing(rows, <<>>)

\* spreadsheets.values.update over A{rowNumber}:L{rowNumber}
ValuesUpdate(sh, rowNumber, values) ==
  [i \in 1..(IF rowNumber > Len(sh) THEN rowNumber ELSE Len(sh)) |->
     IF i = rowNumber THEN values
     ELSE IF i <= Len(sh) THEN sh[i] ELSE BlankRow]

\* mutant: the row lands on the last row of the table
ValuesAppend_overLastRow(sh, start, values) ==
  LET used == StripTrailing(sh, BlankRow)
      at == IF Len(used) >= start THEN Len(used) ELSE start
  IN ValuesUpdate(used, at, values)

\* spreadsheets.values.append: the row lands after the last row of the table
ValuesAppend(sh, start, values) ==
  LET used == StripTrailing(sh, BlankRow)
      at == IF Len(used) + 1 >= start THEN Len(used) + 1 ELSE start
  IN ValuesUpdate(used, at, values)

RowCell(row, index) == IF index <= Len(row) THEN Str(row[index]) ELSE Undef

mapRowToStudent(row, rowNumber) ==
  [found |-> TRUE,
   f |-> [k \in Keys |->
            LET index == CHOOSE i \in 1..12 : KeyAt(i) = k
            IN OrEmpty(RowCell(row, index))],
   rowNumber |-> rowNumber]

NotFound == [found |-> FALSE, f |-> [k \in Keys |-> Undef], rowNumber |-> 0]

\* mutant: CreatedAt is written in column J and the reserved value in column L
buildRowFromStudent_createdAtInJ(student) ==
  [index \in 1..12 |->
     IF index = 10 THEN Trim(OrEmpty(student["CreatedAt"]).s)
     ELSE IF index = 12 THEN OrEmpty(student["_columnJ"]).s
     ELSE IF HEADERS[index] = ""
       THEN OrEmpty(student[KeyAt(index)]).s
       ELSE LET value == student[HEADERS[index]]
            IN IF value.t \in {"undefined", "null"} THEN <<>> ELSE Trim(value.s)]

buildRowFromStudent(student) ==
  [index \in 1..12 |->
     IF HEADERS[index] = ""
       THEN OrEmpty(student[KeyAt(index)]).s
       ELSE LET value == student[HEADERS[index]]
            IN IF value.t \in {"undefined", "null"} THEN <<>> ELSE Trim(value.s)]

RECURSIVE LeadingDigit(_)
LeadingDigit(n) == IF n < 10 THEN n ELSE LeadingDigit(n \div 10)

\* SHEET_RANGE.includes('A1') for the range <sheetName>!A{start}:L
IncludesA1(start) == LeadingDigit(start) = 1

\* buildUpdateRange: the row that A{rowNumber}:L{rowNumber} addresses
buildUpdateRange(rowNumber) == rowNumber

\* mutant: the stored number is compared as it is written in the sheet
findStudentByMobile_rawCompare(sh, start, mobileNo) ==
  LET rows == ValuesGet(sh, start)
      searchMobile == normalizeMobileNumber(Str(mobileNo))
      startRow == IF IncludesA1(start) THEN 1 ELSE 0
      dataRows == IF startRow = 1 THEN Tail(rows) ELSE rows
      Match(idx) ==
        LET row == dataRows[idx]
            rowMobile == OrEmpty(RowCell(row, 2)).s
        IN Len(row) >= 2 /\ rowMobile # <<>> /\ rowMobile = searchMobile
      hits == {idx \in 1..Len(dataRows) : Match(idx)}
  IN IF Len(rows) = 0 \/ hits = {}
       THEN NotFound
       ELSE LET index == (CHOOSE idx \in hits : \A j \in hits : idx <= j) - 1
                rowNumber == index + 2
            IN mapRowToStudent(dataRows[index + 1], rowNumber)

findStudentByMobile(sh, start, mobileNo) ==
  LET rows == ValuesGet(sh, start)
      searchMobile == normalizeMobileNumber(Str(mobileNo))
      startRow == IF IncludesA1(start) THEN 1 ELSE 0
      dataRows == IF startRow = 1 THEN Tail(rows) ELSE rows
      Match(idx) ==
        LET row == dataRows[idx]
            rowMobile == normalizeMobileNumber(OrEmpty(RowCell(row, 2)))
        IN Len(row) >= 2 /\ rowMobile # <<>> /\ rowMobile = searchMobile
      hits == {idx \in 1..Len(dataRows) : Match(idx)}
  IN IF Len(rows) = 0 \/ hits = {}
       THEN NotFound
       ELSE LET index == (CHOOSE idx \in hits : \A j \in hits : idx <= j) - 1
                rowNumber == index + 2
            IN mapRowToStudent(dataRows[index + 1], rowNumber)

----------------------------------------------------------------------------
(* Requests.  A slot holds one request from its arrival to its response.   *)
(* The locals of the handler (body, student, the object to write, the      *)
(* clock reading) live until the handler returns; after that the slot      *)
(* shows the response until the next request arrives there.                *)

NoStudent == [k \in Keys |-> Undef]

NoBody == [mobileNo |-> Undef, fields |-> NoStudent]

NoRes ==
  [student |-> NoStudent, students |-> <<>>, flag |-> "", remainingHours |-> 0,
   error |-> ""]

IdleReq ==
  [kind |-> "idle", pc |-> "idle", body |-> NoBody, student |-> NotFound,
   out |-> NoStudent, at |-> 0, status |-> 0, res |-> NoRes, err |-> 0,
   reads |-> 0, writes |-> 0]

Free(r) == req[r].pc \in {"idle", "done"}

\* a request of the given kind arrives
Arrive(kind, body) == [IdleReq EXCEPT !.kind = kind, !.body = body]

\* res.status(status).json(res) and return: q is the request as it stands
Respond(q, status, res) ==
  [IdleReq EXCEPT !.kind = q.kind, !.pc = "done", !.status = status, !.res = res,
                  !.err = q.err, !.reads = q.reads, !.writes = q.writes]

\* the request after one more round trip to the backing store
Read(q) == [q EXCEPT !.reads = @ + 1]
Wrote(q) == [q EXCEPT !.writes = @ + 1]

\* mutant: the response carries the code of the thrown error
CatchStatus_errorCode(code) == IF code = 0 THEN 500 ELSE code

\* the status the catch blocks of POST /student, POST /student/update and
\* GET /students answer for a thrown error
CatchStatus(code) == IF code = 403 THEN 403 ELSE IF code = 404 THEN 404 ELSE 500

\* the row to write does not have 12 values: the handler throws, its catch
\* block answers
WidthError(q) == Respond(q, CatchStatus(0), [NoRes EXCEPT !.error = "width"])

\* { ...student, ...updates }
Spread(student, updates) ==
  [k \in Keys |-> IF updates[k].t # "undefined" THEN updates[k] ELSE student[k]]

\* the number of sheet rows that hold a record
RowCount(sh) == Cardinality({i \in 2..Len(sh) : sh[i] # BlankRow})

\* the error codes a backing-store call fails with
StoreErrors == {403, 404, 500}

\* the instants at which a behaviour reads the clock
Instants == {0, MaxNow - 1, MaxNow}

Tick ==
  /\ \E t \in Instants : t > now /\ now' = t
  /\ UNCHANGED <<sheet, req, initializationError, rangeStart, lastApproval>>

----------------------------------------------------------------------------
(* GET /student *)

GetStudentBegin(r, mobileNo) ==
  /\ Free(r)
  /\ LET q == Arrive("getStudent", [NoBody EXCEPT !.mobileNo = mobileNo])
     IN IF ~Truthy(mobileNo) \/ Trim(mobileNo.s) = <<>>
          THEN req' = [req EXCEPT ![r] = Respond(q, 400, [NoRes EXCEPT !.error = "required"])]
          ELSE req' = [req EXCEPT ![r] = [q EXCEPT !.pc = "find"]]
  /\ UNCHANGED <<sheet, now, initializationError, rangeStart, lastApproval>>

GetStudentFind(r) ==
  /\ req[r].kind = "getStudent" /\ req[r].pc = "find"
  /\ LET student == findStudentByMobile(sheet, rangeStart, Trim(req[r].body.mobileNo.s))
     IN IF initializationError
          THEN req' = [req EXCEPT ![r] =
                         Respond(req[r], 500, [NoRes EXCEPT !.error = "credentials"])]
          ELSE IF ~student.found
            THEN req' = [req EXCEPT ![r] =
                           Respond(Read(req[r]), 404, [NoRes EXCEPT !.flag = "notfound"])]
            ELSE req' = [req EXCEPT ![r] =
                           Respond(Read(req[r]), 200, [NoRes EXCEPT !.student = student.f])]
  /\ UNCHANGED <<sheet, now, initializationError, rangeStart, lastApproval>>

\* the catch block of GET /student: the read failed
GetStudentError(r, code) ==
  /\ req[r].kind = "getStudent" /\ req[r].pc = "find"
  /\ ~initializationError
  /\ req' = [req EXCEPT ![r] =
               Respond([req[r] EXCEPT !.err = code], CatchStatus(code),
                       [NoRes EXCEPT !.error = "store"])]
  /\ UNCHANGED <<sheet, now, initializationError, rangeStart, lastApproval>>

----------------------------------------------------------------------------
(* GET /students *)

\* the list GET /students answers: the rows are filtered first, and the
\* position in the filtered list gives the rowNumber
students(sh, start) ==
  LET rows == ValuesGet(sh, start)
      startRow == IF IncludesA1(start) THEN 1 ELSE 0
      dataRows == IF startRow = 1 THEN Tail(rows) ELSE rows
      Kept(row) == Len(row) >= 2 /\ row[1] # <<>> /\ row[2] # <<>>
      kept == SelectSeq(dataRows, Kept)
  IN IF Len(rows) = 0
       THEN <<>>
       ELSE [i \in 1..Len(kept) |->
               LET idx == i - 1
                   rowNumber == IF startRow = 1 THEN idx + 2 ELSE idx + 1
               IN mapRowToStudent(kept[i], rowNumber)]

\* mutant: the handler goes on to the sheet without its client
GetStudentsBegin_noClientCheck(r) ==
  /\ Free(r)
  /\ req' = [req EXCEPT ![r] = [Arrive("getStudents", NoBody) EXCEPT !.pc = "list"]]
  /\ UNCHANGED <<sheet, now, initializationError, rangeStart, lastApproval>>

\* getSheetsClient throws before the first await when the credentials
\* failed to load
GetStudentsBegin(r) ==
  /\ Free(r)
  /\ LET q == Arrive("getStudents", NoBody)
     IN IF initializationError
          THEN req' = [req EXCEPT ![r] =
                         Respond(q, CatchStatus(0), [NoRes EXCEPT !.error = "credentials"])]
          ELSE req' = [req EXCEPT ![r] = [q EXCEPT !.pc = "list"]]
  /\ UNCHANGED <<sheet, now, initializationError, rangeStart, lastApproval>>

GetStudentsList(r) ==
  /\ req[r].kind = "getStudents" /\ req[r].pc = "list"
  /\ req' = [req EXCEPT ![r] =
               Respond(Read(req[r]), 200,
                       [NoRes EXCEPT !.students = students(sheet, rangeStart)])]
  /\ UNCHANGED <<sheet, now, initializationError, rangeStart, lastApproval>>

\* the catch block of GET /students: the read failed
GetStudentsError(r, code) ==
  /\ req[r].kind = "getStudents" /\ req[r].pc = "list"
  /\ req' = [req EXCEPT ![r] =
               Respond([req[r] EXCEPT !.err = code], CatchStatus(code),
                       [NoRes EXCEPT !.error = "store"])]
  /\ UNCHANGED <<sheet, now, initializationError, rangeStart, lastApproval>>

----------------------------------------------------------------------------
(* POST /student *)

\* mutant: an empty FeeAmount counts as provided
FeeProvided_emptyOk(FeeAmount) ==
  ~(FeeAmount.t \in {"undefined", "null"})

\* FeeAmount !== undefined && FeeAmount !== null && FeeAmount !== ''
FeeProvided(FeeAmount) ==
  ~(FeeAmount.t \in {"undefined", "null"}) /\ ~(FeeAmount.t = "string" /\ FeeAmount.s = <<>>)

\* the updatedStudent of the three update-instead-of-append branches
\* mutant: CreatedAt is taken from the request body instead of the record
UpsertMerge_bodyCreatedAt(existing, body, normalizedMobileNo) ==
  [k \in Keys |->
     CASE k = "Name" -> Str(Trim(body["Name"].s))
       [] k = "MobileNo" -> Str(normalizedMobileNo)
       [] k = "District" -> Str(Trim(body["District"].s))
       [] k = "State" -> Str(Trim(body["State"].s))
       [] k = "Paid" -> normalizeYesNo(body["Paid"])
       [] k = "FeeAmount" ->
            IF FeeProvided(body["FeeAmount"])
              THEN Str(Trim(body["FeeAmount"].s))
              ELSE OrEmpty(existing["FeeAmount"])
       [] k = "CreatedAt" -> OrEmpty(body["CreatedAt"])
       [] k = "LastApprovedAt" -> OrEmptyFalsy(existing["LastApprovedAt"])
       [] k = "_columnJ" -> OrEmpty(existing["_columnJ"])
       [] k = "_columnK" -> OrEmpty(existing["_columnK"])
       [] OTHER -> existing[k]]

UpsertMerge(existing, body, normalizedMobileNo) ==
  [k \in Keys |->
     CASE k = "Name" -> Str(Trim(body["Name"].s))
       [] k = "MobileNo" -> Str(normalizedMobileNo)
       [] k = "District" -> Str(Trim(body["District"].s))
       [] k = "State" -> Str(Trim(body["State"].s))
       [] k = "Paid" -> normalizeYesNo(body["Paid"])
       [] k = "FeeAmount" ->
            IF FeeProvided(body["FeeAmount"])
              THEN Str(Trim(body["FeeAmount"].s))
              ELSE OrEmpty(existing["FeeAmount"])
       [] k = "CreatedAt" -> OrEmpty(existing["CreatedAt"])
       [] k = "LastApprovedAt" -> OrEmptyFalsy(existing["LastApprovedAt"])
       [] k = "_columnJ" -> OrEmpty(existing["_columnJ"])
       [] k = "_columnK" -> OrEmpty(existing["_columnK"])
       [] OTHER -> existing[k]]

\* the newStudent of the append path, built at the instant t
\* mutant: a new record is stored as not yet attempted
NewStudent_notAttempted(body, normalizedMobileNo, t) ==
  [k \in Keys |->
     CASE k = "Name" -> Str(Trim(body["Name"].s))
       [] k = "MobileNo" -> Str(normalizedMobileNo)
       [] k = "District" -> Str(Trim(body["District"].s))
       [] k = "State" -> Str(Trim(body["State"].s))
       [] k = "Paid" -> normalizeYesNo(body["Paid"])
       [] k = "FeeAmount" -> Str(Trim(body["FeeAmount"].s))
       [] k = "Attempted" -> Str(No)
       [] k = "RetakeAllowed" -> Str(No)
       [] k = "LastApprovedAt" -> Str(getCurrentISTTimestamp(t))
       [] k = "CreatedAt" -> Str(getCurrentISTTimestamp(t))
       [] OTHER -> Str(<<>>)]

NewStudent(body, normalizedMobileNo, t) ==
  [k \in Keys |->
     CASE k = "Name" -> Str(Trim(body["Name"].s))
       [] k = "MobileNo" -> Str(normalizedMobileNo)
       [] k = "District" -> Str(Trim(body["District"].s))
       [] k = "State" -> Str(Trim(body["State"].s))
       [] k = "Paid" -> normalizeYesNo(body["Paid"])
       [] k = "FeeAmount" -> Str(Trim(body["FeeAmount"].s))
       [] k = "Attempted" -> Str(Yes)
       [] k = "RetakeAllowed" -> Str(No)
       [] k = "LastApprovedAt" -> Str(getCurrentISTTimestamp(t))
       [] k = "CreatedAt" -> Str(getCurrentISTTimestamp(t))
       [] OTHER -> Str(<<>>)]

\* requests of this kind that may still append
Appending == {q \in DOMAIN req : req[q].kind = "postStudent" /\ ~Free(q)}

\* the sheet of the model has room for the row this request may append
RoomFor(body) ==
  IF Len(sheet) + Cardinality(Appending) < MaxRows
    THEN TRUE
    ELSE findStudentByMobile(sheet, rangeStart, normalizeMobileNumber(body.mobileNo)).found

PostStudentBegin(r, body) ==
  /\ Free(r)
  /\ RoomFor(body)
  /\ LET f == body.fields
         q == Arrive("postStudent", body)
         \* refused before the handler holds anything but the body
         Reject(status, error) ==
           req' = [req EXCEPT ![r] =
                     [Respond(q, status, [NoRes EXCEPT !.error = error]) EXCEPT
                        !.body = body]]
     IN IF \/ ~Truthy(f["Name"]) \/ ~Truthy(f["MobileNo"]) \/ ~Truthy(f["District"])
           \/ ~Truthy(f["State"]) \/ f["Paid"].t = "undefined"
          THEN Reject(400, "required")
          ELSE IF ~FeeProvided(f["FeeAmount"])
            THEN Reject(400, "FeeAmount")
            ELSE IF normalizeMobileNumber(f["MobileNo"]) = <<>>
              THEN Reject(400, "Invalid mobile number")
              ELSE IF initializationError
                THEN Reject(CatchStatus(0), "credentials")
                ELSE req' = [req EXCEPT ![r] = [q EXCEPT !.pc = "existingStudent"]]
  /\ UNCHANGED <<sheet, now, initializationError, rangeStart, lastApproval>>

\* mutant: the branch writes a newStudent, with fresh timestamps, over the row
TurnToUpdate_newStudent(q, student) ==
  LET normalizedMobileNo == normalizeMobileNumber(q.body.fields["MobileNo"])
  IN [Read(q) EXCEPT !.pc = "update", !.student = student,
        !.out = NewStudent(q.body.fields, normalizedMobileNo, q.at)]

\* a lookup of the flow that found the record: the flow turns into an
\* in-place update of that row
TurnToUpdate(q, student) ==
  LET normalizedMobileNo == normalizeMobileNumber(q.body.fields["MobileNo"])
  IN [Read(q) EXCEPT !.pc = "update", !.student = student,
        !.out = UpsertMerge(student.f, q.body.fields, normalizedMobileNo)]

\* the lookup of the flow for the number of the request
Lookup(q) ==
  findStudentByMobile(sheet, rangeStart, normalizeMobileNumber(q.body.fields["MobileNo"]))

\* mutant: an upsert on an existing record approves it
PostStudentExistingStudent_approves(r) ==
  /\ req[r].kind = "postStudent" /\ req[r].pc = "existingStudent"
  /\ IF Lookup(req[r]).found
       THEN req' = [req EXCEPT ![r] =
                      [TurnToUpdate(req[r], Lookup(req[r])) EXCEPT
                         !.out["Attempted"] = Str(Yes),
                         !.out["LastApprovedAt"] = Str(getCurrentISTTimestamp(now))]]
       ELSE req' = [req EXCEPT ![r] = [Read(req[r]) EXCEPT !.pc = "finalCheck"]]
  /\ UNCHANGED <<sheet, now, initializationError, rangeStart, lastApproval>>

PostStudentExistingStudent(r) ==
  /\ req[r].kind = "postStudent" /\ req[r].pc = "existingStudent"
  /\ IF Lookup(req[r]).found
       THEN req' = [req EXCEPT ![r] = TurnToUpdate(req[r], Lookup(req[r]))]
       ELSE req' = [req EXCEPT ![r] = [Read(req[r]) EXCEPT !.pc = "finalCheck"]]
  /\ UNCHANGED <<sheet, now, initializationError, rangeStart, lastApproval>>

\* mutant: the newStudent carries the number as the request wrote it
PostStudentFinalCheck_rawMobileNo(r) ==
  /\ req[r].kind = "postStudent" /\ req[r].pc = "finalCheck"
  /\ IF Lookup(req[r]).found
       THEN req' = [req EXCEPT ![r] = TurnToUpdate(req[r], Lookup(req[r]))]
       ELSE req' = [req EXCEPT ![r] =
                      [Read(req[r]) EXCEPT !.pc = "preAppendCheck", !.at = now,
                         !.out = NewStudent(req[r].body.fields,
                                   req[r].body.fields["MobileNo"].s, now)]]
  /\ UNCHANGED <<sheet, now, initializationError, rangeStart, lastApproval>>

\* after the final check comes up empty the newStudent is built, with the
\* timestamps of that moment
PostStudentFinalCheck(r) ==
  /\ req[r].kind = "postStudent" /\ req[r].pc = "finalCheck"
  /\ IF Lookup(req[r]).found
       THEN req' = [req EXCEPT ![r] = TurnToUpdate(req[r], Lookup(req[r]))]
       ELSE req' = [req EXCEPT ![r] =
                      [Read(req[r]) EXCEPT !.pc = "preAppendCheck", !.at = now,
                         !.out = NewStudent(req[r].body.fields,
                                   normalizeMobileNumber(req[r].body.fields["MobileNo"]), now)]]
  /\ UNCHANGED <<sheet, now, initializationError, rangeStart, lastApproval>>

PostStudentPreAppendCheck(r) ==
  /\ req[r].kind = "postStudent" /\ req[r].pc = "preAppendCheck"
  /\ IF Lookup(req[r]).found
       THEN req' = [req EXCEPT ![r] = TurnToUpdate(req[r], Lookup(req[r]))]
       ELSE req' = [req EXCEPT ![r] = [Read(req[r]) EXCEPT !.pc = "absoluteFinalCheck"]]
  /\ UNCHANGED <<sheet, now, initializationError, rangeStart, lastApproval>>

\* mutant: a last check that comes up empty is followed by another round of
\* checks
PostStudentAbsoluteFinalCheck_again(r) ==
  /\ req[r].kind = "postStudent" /\ req[r].pc = "absoluteFinalCheck"
  /\ req' = [req EXCEPT ![r] = [req[r] EXCEPT !.pc = "preAppendCheck", !.reads = @ - 1]]
  /\ UNCHANGED <<sheet, now, initializationError, rangeStart, lastApproval>>

\* a record found by the last check is thrown as an error
PostStudentAbsoluteFinalCheck(r) ==
  /\ req[r].kind = "postStudent" /\ req[r].pc = "absoluteFinalCheck"
  /\ IF Lookup(req[r]).found
       THEN req' = [req EXCEPT ![r] =
                      Respond(Read(req[r]), CatchStatus(0),
                              [NoRes EXCEPT !.error = "record exists"])]
       ELSE req' = [req EXCEPT ![r] = [Read(req[r]) EXCEPT !.pc = "append"]]
  /\ UNCHANGED <<sheet, now, initializationError, rangeStart, lastApproval>>

\* history: the instant of the latest approval that the writes of each row
\* recorded (-1: none)
Approve(rowNumber, t) ==
  [i \in 1..(IF rowNumber > Len(lastApproval) THEN rowNumber ELSE Len(lastApproval)) |->
     IF i = rowNumber THEN t
     ELSE IF i <= Len(lastApproval) THEN lastApproval[i] ELSE -1]

\* mutant: the append is conditional on the number still having no row
PostStudentAppend_checked(r) ==
  /\ req[r].kind = "postStudent" /\ req[r].pc = "append"
  /\ LET newStudentRow == buildRowFromStudent(req[r].out)
     IN IF Lookup(req[r]).found
          THEN /\ req' = [req EXCEPT ![r] =
                            Respond(req[r], CatchStatus(0),
                                    [NoRes EXCEPT !.error = "record exists"])]
               /\ UNCHANGED <<sheet, lastApproval>>
          ELSE IF Len(newStudentRow) # 12
            THEN /\ req' = [req EXCEPT ![r] = WidthError(req[r])]
                 /\ UNCHANGED <<sheet, lastApproval>>
          ELSE /\ sheet' = ValuesAppend(sheet, rangeStart, newStudentRow)
               /\ lastApproval' = Approve(Len(sheet'), req[r].at)
               /\ req' = [req EXCEPT ![r] =
                            Respond(Wrote(req[r]), 201,
                                    [NoRes EXCEPT !.student = req[r].out, !.flag = "created"])]
  /\ UNCHANGED <<now, initializationError, rangeStart>>

PostStudentAppend(r) ==
  /\ req[r].kind = "postStudent" /\ req[r].pc = "append"
  /\ LET newStudentRow == buildRowFromStudent(req[r].out)
     IN IF Len(newStudentRow) # 12
          THEN /\ req' = [req EXCEPT ![r] = WidthError(req[r])]
               /\ UNCHANGED <<sheet, lastApproval>>
          ELSE /\ sheet' = ValuesAppend(sheet, rangeStart, newStudentRow)
               /\ lastApproval' = Approve(Len(sheet'), req[r].at)
               /\ req' = [req EXCEPT ![r] =
                            Respond(Wrote(req[r]), 201,
                                    [NoRes EXCEPT !.student = req[r].out, !.flag = "created"])]
  /\ UNCHANGED <<now, initializationError, rangeStart>>

\* mutant: the row is read back after it was written
PostStudentUpdate_rereads(r) ==
  /\ req[r].kind = "postStudent" /\ req[r].pc = "update"
  /\ LET sheetRow == req[r].student.rowNumber
         updateValues == buildRowFromStudent(req[r].out)
     IN IF Len(updateValues) # 12
          THEN req' = [req EXCEPT ![r] = WidthError(req[r])] /\ UNCHANGED sheet
          ELSE /\ sheet' = ValuesUpdate(sheet, buildUpdateRange(sheetRow), updateValues)
               /\ req' = [req EXCEPT ![r] =
                            Respond(Read(Wrote(req[r])), 200,
                                    [NoRes EXCEPT !.student = req[r].out, !.flag = "updated"])]
  /\ UNCHANGED <<now, initializationError, rangeStart, lastApproval>>

PostStudentUpdate(r) ==
  /\ req[r].kind = "postStudent" /\ req[r].pc = "update"
  /\ LET sheetRow == req[r].student.rowNumber
         updateValues == buildRowFromStudent(req[r].out)
     IN IF Len(updateValues) # 12
          THEN req' = [req EXCEPT ![r] = WidthError(req[r])] /\ UNCHANGED sheet
          ELSE /\ sheet' = ValuesUpdate(sheet, buildUpdateRange(sheetRow), updateValues)
               /\ req' = [req EXCEPT ![r] =
                            Respond(Wrote(req[r]), 200,
                                    [NoRes EXCEPT !.student = req[r].out, !.flag = "updated"])]
  /\ UNCHANGED <<now, initializationError, rangeStart, lastApproval>>

\* the catch block of POST /student: a backing-store call failed
PostStudentError(r, code) ==
  /\ req[r].kind = "postStudent"
  /\ req[r].pc \in {"existingStudent", "finalCheck", "preAppendCheck",
                    "absoluteFinalCheck", "append", "update"}
  /\ req' = [req EXCEPT ![r] =
               Respond([req[r] EXCEPT !.err = code], CatchStatus(code),
                       [NoRes EXCEPT !.error = "store"])]
  /\ UNCHANGED <<sheet, now, initializationError, rangeStart, lastApproval>>

----------------------------------------------------------------------------
(* POST /student/update *)

\* normalizedUpdates: the Yes/No fields present in the payload are normalized
\* mutant: Attempted is stored as the payload gives it
NormalizeUpdates_rawAttempted(updates) ==
  [k \in Keys |->
     IF k \in {"Paid", "RetakeAllowed"} /\ updates[k].t # "undefined"
       THEN normalizeYesNo(updates[k])
       ELSE updates[k]]

NormalizeUpdates(updates) ==
  [k \in Keys |->
     IF k \in {"Paid", "Attempted", "RetakeAllowed"} /\ updates[k].t # "undefined"
       THEN normalizeYesNo(updates[k])
       ELSE updates[k]]

isRetakeRequest(normalizedUpdates) ==
  normalizedUpdates["RetakeAllowed"].t # "undefined"
    /\ normalizedUpdates["RetakeAllowed"] = Str(Yes)

isAttemptApproval(normalizedUpdates, student) ==
  /\ normalizedUpdates["Attempted"].t # "undefined"
  /\ normalizedUpdates["Attempted"] = Str(Yes)
  /\ normalizeYesNo(student["Attempted"]) # Str(Yes)

\* mutant: a retake exactly 12 hours after the last approval is still refused
InCooldown_inclusive(student, t) ==
  LET lastApprovedAtDate == parseIsoDate(student["LastApprovedAt"])
  IN lastApprovedAtDate.valid /\ t - lastApprovedAtDate.time <= TWELVE_HOURS_MS

\* the retake is refused: the last approval is less than 12 hours before t
InCooldown(student, t) ==
  LET lastApprovedAtDate == parseIsoDate(student["LastApprovedAt"])
  IN lastApprovedAtDate.valid /\ t - lastApprovedAtDate.time < TWELVE_HOURS_MS

\* mutant: the remaining time is rounded down
RemainingHours_floor(student, t) ==
  LET timeSinceLastApproval == t - parseIsoDate(student["LastApprovedAt"]).time
      remainingMs == TWELVE_HOURS_MS - timeSinceLastApproval
  IN remainingMs \div HOUR_MS

RemainingHours(student, t) ==
  LET timeSinceLastApproval == t - parseIsoDate(student["LastApprovedAt"]).time
      remainingMs == TWELVE_HOURS_MS - timeSinceLastApproval
  IN Ceil(remainingMs, HOUR_MS)

\* the updatedStudent of POST /student/update, built at the instant t
\* mutant: CreatedAt is neither stripped from the payload nor restored
UpdateMerge_payloadCreatedAt(student, normalizedUpdates, normalizedMobileNo, t) ==
  LET merged == [Spread(student, normalizedUpdates) EXCEPT
                   !["MobileNo"] = Str(normalizedMobileNo)]
  IN [k \in Keys |->
        CASE k \in {"_columnJ", "_columnK"} ->
               IF ~Truthy(merged[k]) THEN OrEmpty(student[k]) ELSE merged[k]
          [] k = "FeeAmount" ->
               IF merged[k].t \in {"undefined", "null"} THEN OrEmpty(student[k]) ELSE merged[k]
          [] k = "LastApprovedAt" ->
               IF isRetakeRequest(normalizedUpdates) \/ isAttemptApproval(normalizedUpdates, student)
                 THEN Str(getCurrentISTTimestamp(t))
                 ELSE IF merged[k].t = "undefined" THEN OrEmpty(student[k]) ELSE merged[k]
          [] OTHER -> merged[k]]

UpdateMerge(student, normalizedUpdates, normalizedMobileNo, t) ==
  LET updatesWithoutCreatedAt == [normalizedUpdates EXCEPT !["CreatedAt"] = Undef]
      merged == [Spread(student, updatesWithoutCreatedAt) EXCEPT
                   !["MobileNo"] = Str(normalizedMobileNo)]
  IN [k \in Keys |->
        CASE k \in {"_columnJ", "_columnK"} ->
               IF ~Truthy(merged[k]) THEN OrEmpty(student[k]) ELSE merged[k]
          [] k = "FeeAmount" ->
               IF merged[k].t \in {"undefined", "null"} THEN OrEmpty(student[k]) ELSE merged[k]
          [] k = "LastApprovedAt" ->
               IF isRetakeRequest(normalizedUpdates) \/ isAttemptApproval(normalizedUpdates, student)
                 THEN Str(getCurrentISTTimestamp(t))
                 ELSE IF merged[k].t = "undefined" THEN OrEmpty(student[k]) ELSE merged[k]
          [] k = "CreatedAt" -> OrEmpty(student[k])
          [] OTHER -> merged[k]]

\* hasUpdates is false for a body without an updates object
UpdateBegin(r, body, hasUpdates) ==
  /\ Free(r)
  /\ LET q == Arrive("update", body)
         Reject(status, error) ==
           req' = [req EXCEPT ![r] = Respond(q, status, [NoRes EXCEPT !.error = error])]
     IN IF ~Truthy(body.mobileNo) \/ ~hasUpdates
          THEN Reject(400, "required")
          ELSE IF normalizeMobileNumber(body.mobileNo) = <<>>
            THEN Reject(400, "Invalid mobile number")
            ELSE req' = [req EXCEPT ![r] = [q EXCEPT !.pc = "find"]]
  /\ UNCHANGED <<sheet, now, initializationError, rangeStart, lastApproval>>

UpdateFind(r) ==
  /\ req[r].kind = "update" /\ req[r].pc = "find"
  /\ LET normalizedMobileNo == normalizeMobileNumber(req[r].body.mobileNo)
         student == findStudentByMobile(sheet, rangeStart, normalizedMobileNo)
         normalizedUpdates == NormalizeUpdates(req[r].body.fields)
     IN IF initializationError
          THEN req' = [req EXCEPT ![r] =
                         Respond(req[r], CatchStatus(0), [NoRes EXCEPT !.error = "credentials"])]
          ELSE IF ~student.found
            THEN req' = [req EXCEPT ![r] =
                           Respond(Read(req[r]), 404, [NoRes EXCEPT !.flag = "notfound"])]
            ELSE IF isRetakeRequest(normalizedUpdates) /\ InCooldown(student.f, now)
              THEN req' = [req EXCEPT ![r] =
                             Respond(Read(req[r]), 409,
                                     [NoRes EXCEPT
                                        !.remainingHours = RemainingHours(student.f, now),
                                        !.error = "cooldown"])]
              ELSE req' = [req EXCEPT ![r] =
                             [Read(req[r]) EXCEPT !.pc = "write", !.student = student,
                                !.at = now,
                                !.out = UpdateMerge(student.f, normalizedUpdates,
                                                    normalizedMobileNo, now)]]
  /\ UNCHANGED <<sheet, now, initializationError, rangeStart, lastApproval>>

\* mutant: the merged record is appended instead of written in place
UpdateWrite_append(r) ==
  /\ req[r].kind = "update" /\ req[r].pc = "write"
  /\ LET updateValues == buildRowFromStudent(req[r].out)
     IN IF Len(updateValues) # 12
          THEN /\ req' = [req EXCEPT ![r] = WidthError(req[r])]
               /\ UNCHANGED <<sheet, lastApproval>>
          ELSE /\ sheet' = ValuesAppend(sheet, rangeStart, updateValues)
               /\ lastApproval' = Approve(Len(sheet'), req[r].at)
               /\ req' = [req EXCEPT ![r] =
                            Respond(Wrote(req[r]), 200, [NoRes EXCEPT !.student = req[r].out])]
  /\ UNCHANGED <<now, initializationError, rangeStart>>

UpdateWrite(r) ==
  /\ req[r].kind = "update" /\ req[r].pc = "write"
  /\ LET sheetRow == req[r].student.rowNumber
         updateValues == buildRowFromStudent(req[r].out)
         normalizedUpdates == NormalizeUpdates(req[r].body.fields)
     IN IF Len(updateValues) # 12
          THEN /\ req' = [req EXCEPT ![r] = WidthError(req[r])]
               /\ UNCHANGED <<sheet, lastApproval>>
          ELSE /\ sheet' = ValuesUpdate(sheet, buildUpdateRange(sheetRow), updateValues)
               /\ lastApproval' =
                    IF isRetakeRequest(normalizedUpdates)
                         \/ isAttemptApproval(normalizedUpdates, req[r].student.f)
                      THEN Approve(sheetRow, req[r].at)
                      ELSE lastApproval
               /\ req' = [req EXCEPT ![r] =
                            Respond(Wrote(req[r]), 200, [NoRes EXCEPT !.student = req[r].out])]
  /\ UNCHANGED <<now, initializationError, rangeStart>>

\* the catch block of POST /student/update: a backing-store call failed
UpdateError(r, code) ==
  /\ req[r].kind = "update" /\ req[r].pc \in {"find", "write"}
  /\ ~initializationError
  /\ req' = [req EXCEPT ![r] =
               Respond([req[r] EXCEPT !.err = code], CatchStatus(code),
                       [NoRes EXCEPT !.error = "store"])]
  /\ UNCHANGED <<sheet, now, initializationError, rangeStart, lastApproval>>

----------------------------------------------------------------------------
(* Inputs *)

N7 == <<"7">>
N8 == <<"8">>

PostBody(Name, MobileNo, District, State, Paid, FeeAmount) ==
  [mobileNo |-> MobileNo,
   fields |-> [k \in Keys |->
     CASE k = "Name" -> Name [] k = "MobileNo" -> MobileNo
       [] k = "District" -> District [] k = "State" -> State
       [] k = "Paid" -> Paid [] k = "FeeAmount" -> FeeAmount
       [] OTHER -> Undef]]

ValidPostBodies ==
  { PostBody(Str(<<"A">>), Str(N7), Str(<<"X">>), Str(<<"Y">>), Str(Yes), Str(<<"5">>)),
    PostBody(Str(<<" ","B">>), Str(<<"7","-">>), Str(<<"Z"," ">>), Str(<<"Y">>),
             Bool(FALSE), Str(<<"6"," ">>)),
    PostBody(Str(<<"A">>), Str(N8), Str(<<"X">>), Str(<<"Y">>),
             Str(<<"y","e","s"," ">>), Str(<<"5">>)) }

InvalidPostBodies ==
  { PostBody(Undef, Str(N7), Str(<<"X">>), Str(<<"Y">>), Str(Yes), Str(<<"5">>)),
    PostBody(Str(<<"A">>), Undef, Str(<<"X">>), Str(<<"Y">>), Str(Yes), Str(<<"5">>)),
    PostBody(Str(<<"A">>), Str(N7), Undef, Str(<<"Y">>), Str(Yes), Str(<<"5">>)),
    PostBody(Str(<<"A">>), Str(N7), Str(<<"X">>), Undef, Str(Yes), Str(<<"5">>)),
    PostBody(Str(<<"A">>), Str(N7), Str(<<"X">>), Str(<<"Y">>), Undef, Str(<<"5">>)),
    PostBody(Str(<<"A">>), Str(N7), Str(<<"X">>), Str(<<"Y">>), Str(Yes), Undef),
    PostBody(Str(<<"A">>), Str(N7), Str(<<"X">>), Str(<<"Y">>), Str(Yes), Str(<<>>)),
    PostBody(Str(<<"A">>), Str(N7), Undef, Str(<<"Y">>), Str(Yes), Str(<<>>)),
    PostBody(Str(<<"A">>), Str(<<"-">>), Str(<<"X">>), Str(<<"Y">>), Str(Yes), Str(<<"5">>)) }

PostBodies == ValidPostBodies \cup InvalidPostBodies

\* an updates object with the given fields
Updates(fields) == [k \in Keys |-> IF k \in DOMAIN fields THEN fields[k] ELSE Undef]

UpdateBody(mobileNo, fields) == [mobileNo |-> Str(mobileNo), fields |-> Updates(fields)]

UpdateBodies ==
  { UpdateBody(N7, "Attempted" :> Bool(TRUE)),
    UpdateBody(<<" ","7">>, "Attempted" :> Str(No)),
    UpdateBody(N7, "RetakeAllowed" :> Str(Yes)),
    UpdateBody(N7, "RetakeAllowed" :> Str(<<" ","y","e","s">>) @@ "Name" :> Str(<<"C">>)),
    UpdateBody(N7, "CreatedAt" :> Str(getCurrentISTTimestamp(MaxNow)) @@ "Paid" :> Bool(TRUE)),
    UpdateBody(N7, "Attempted" :> Str(Yes) @@ "LastApprovedAt" :> Str(<<"x">>)),
    UpdateBody(N8, "Attempted" :> Bool(TRUE) @@ "MobileNo" :> Str(<<"9","-">>)),
    UpdateBody(<<"-">>, "Attempted" :> Bool(TRUE)) }

\* the bodies sent without an updates object
NoUpdatesBodies == {b \in UpdateBodies : b.mobileNo = Str(N8)}

LookupInputs == {Str(N7), Str(<<" ","8"," ">>), Str(<<" ">>), Str(<<"-">>)}

----------------------------------------------------------------------------
(* Initial states *)

\* a record entered in the sheet by hand: never approved, no timestamps
LegacyRow ==
  <<<<"A">>, <<"7","-">>, <<"X">>, <<"Y">>, No, <<>>, No, No, <<>>, <<"j">>, <<>>, <<>> >>

InitSheets == { <<HeaderRow>>, <<HeaderRow, LegacyRow>> }

Slots == 1..MaxInFlight

TypeInit(slots) ==
  /\ sheet \in InitSheets
  /\ lastApproval = [i \in 1..Len(sheet) |-> -1]
  /\ now = 0
  /\ req = [r \in slots |-> IdleReq]
  /\ initializationError \in BOOLEAN
  /\ rangeStart = 2

\* one request at a time
Init == TypeInit({1})

Next ==
  \/ Tick
  \/ \E mobileNo \in LookupInputs : GetStudentBegin(1, mobileNo)
  \/ GetStudentFind(1)
  \/ \E code \in StoreErrors : GetStudentError(1, code)
  \/ \E body \in PostBodies : PostStudentBegin(1, body)
  \/ PostStudentExistingStudent(1)
  \/ PostStudentFinalCheck(1)
  \/ PostStudentPreAppendCheck(1)
  \/ PostStudentAbsoluteFinalCheck(1)
  \/ PostStudentAppend(1)
  \/ PostStudentUpdate(1)
  \/ \E code \in StoreErrors : PostStudentError(1, code)
  \/ \E body \in UpdateBodies : UpdateBegin(1, body, TRUE)
  \/ \E body \in NoUpdatesBodies : UpdateBegin(1, body, FALSE)
  \/ UpdateFind(1)
  \/ UpdateWrite(1)
  \/ \E code \in StoreErrors : UpdateError(1, code)

Spec == Init /\ [][Next]_vars

----------------------------------------------------------------------------
(* Concurrent requests: up to MaxInFlight handlers interleave at their     *)
(* awaits.  Every store round trip is one step.                            *)

ConcInit ==
  /\ TypeInit(Slots)
  /\ ~initializationError

ConcPostBodies == {b \in ValidPostBodies : b.mobileNo = Str(<<"7","-">>)}

ConcUpdateBodies ==
  { UpdateBody(N7, "CreatedAt" :> Str(getCurrentISTTimestamp(MaxNow)) @@ "Name" :> Str(<<"C">>)) }

ConcNext ==
  \/ Tick
  \/ \E r \in Slots, body \in ConcPostBodies : PostStudentBegin(r, body)
  \/ \E r \in Slots : PostStudentExistingStudent(r)
  \/ \E r \in Slots : PostStudentFinalCheck(r)
  \/ \E r \in Slots : PostStudentPreAppendCheck(r)
  \/ \E r \in Slots : PostStudentAbsoluteFinalCheck(r)
  \/ \E r \in Slots : PostStudentAppend(r)
  \/ \E r \in Slots : PostStudentUpdate(r)
  \/ \E r \in Slots, body \in ConcUpdateBodies : UpdateBegin(r, body, TRUE)
  \/ \E r \in Slots : UpdateFind(r)
  \/ \E r \in Slots : UpdateWrite(r)

ConcSpec == ConcInit /\ [][ConcNext]_vars

----------------------------------------------------------------------------
(* normalizeMobileNumber on its own: the argument is any string of at most *)
(* MaxLen characters, the function is applied to it and then to its own    *)
(* result.                                                                 *)

Alphabet == {"7", "0", "-", " ", "a"}

Strings(n) == UNION {[1..k -> Alphabet] : k \in 0..n}

NormInit ==
  /\ sheet = <<HeaderRow>>
  /\ lastApproval = <<-1>>
  /\ now = 0
  /\ initializationError = FALSE
  /\ rangeStart = 2
  /\ \E s \in Strings(MaxLen) :
       req = [r \in {1} |->
                [IdleReq EXCEPT !.kind = "normalize", !.pc = "input",
                                !.body = [NoBody EXCEPT !.mobileNo = Str(s)]]]

\* normalizeMobileNumber(mobileNo)
Normalize(r) ==
  /\ req[r].kind = "normalize" /\ req[r].pc = "input"
  /\ req' = [req EXCEPT ![r] =
               [req[r] EXCEPT !.pc = "once",
                  !.out = [NoStudent EXCEPT
                             !["MobileNo"] = Str(normalizeMobileNumber(req[r].body.mobileNo))]]]
  /\ UNCHANGED <<sheet, now, initializationError, rangeStart, lastApproval>>

\* normalizeMobileNumber(normalizeMobileNumber(mobileNo))
NormalizeAgain(r) ==
  /\ req[r].kind = "normalize" /\ req[r].pc = "once"
  /\ req' = [req EXCEPT ![r] =
               [req[r] EXCEPT !.pc = "twice",
                  !.res = [NoRes EXCEPT
                             !.student = [NoStudent EXCEPT
                               !["MobileNo"] = Str(normalizeMobileNumber(req[r].out["MobileNo"]))]]]]
  /\ UNCHANGED <<sheet, now, initializationError, rangeStart, lastApproval>>

NormNext == Normalize(1) \/ NormalizeAgain(1)

NormSpec == NormInit /\ [][NormNext]_vars

----------------------------------------------------------------------------
(* Update payloads that name the reserved columns, applied one request at  *)
(* a time to the record of one number.                                     *)

FramePostBodies == {b \in ValidPostBodies : normalizeMobileNumber(b.mobileNo) = N7}

FrameUpdateBodies ==
  { UpdateBody(N7, "_columnJ" :> Str(<<"z">>)),
    UpdateBody(N7, "Name" :> Str(<<"C">>) @@ "_columnK" :> Str(<<>>)),
    UpdateBody(N7, "Attempted" :> Bool(TRUE)) }

FrameInit ==
  /\ TypeInit({1})
  /\ ~initializationError

FrameNext ==
  \/ \E body \in FramePostBodies : PostStudentBegin(1, body)
  \/ PostStudentExistingStudent(1)
  \/ PostStudentFinalCheck(1)
  \/ PostStudentPreAppendCheck(1)
  \/ PostStudentAbsoluteFinalCheck(1)
  \/ PostStudentAppend(1)
  \/ PostStudentUpdate(1)
  \/ \E body \in FrameUpdateBodies : UpdateBegin(1, body, TRUE)
  \/ UpdateFind(1)
  \/ UpdateWrite(1)

FrameSpec == FrameInit /\ [][FrameNext]_vars

----------------------------------------------------------------------------
(* The four endpoints, one request at a time, with the credentials loaded  *)
(* or not and with every backing-store call free to fail.                  *)

ApiPostBodies ==
  { PostBody(Str(<<"A">>), Str(N7), Str(<<"X">>), Str(<<"Y">>), Str(Yes), Str(<<"5">>)),
    PostBody(Str(<<" ","B">>), Str(<<"7","-">>), Str(<<"Z"," ">>), Str(<<"Y">>),
             Bool(FALSE), Str(<<"6"," ">>)),
    PostBody(Str(<<"A">>), Str(N7), Str(<<"X">>), Str(<<"Y">>), Str(Yes), Str(<<>>)),
    PostBody(Str(<<"A">>), Str(<<"-">>), Str(<<"X">>), Str(<<"Y">>), Str(Yes), Str(<<"5">>)) }

ApiUpdateBodies ==
  { UpdateBody(N7, "RetakeAllowed" :> Str(Yes)),
    UpdateBody(N8, "Attempted" :> Bool(TRUE)),
    UpdateBody(<<"-">>, "Attempted" :> Bool(TRUE)) }

ApiLookupInputs == {Str(N7), Str(<<" ">>)}

\* a row left blank between two records, and a row without a number
GapRow == <<<<"G">>, <<>>, <<>>, <<>>, <<>>, <<>>, <<>>, <<>>, <<>>, <<>>, <<>>, <<>> >>

ApiInit ==
  /\ sheet \in InitSheets \cup {<<HeaderRow, BlankRow, LegacyRow>>, <<HeaderRow, GapRow>>}
  /\ lastApproval = [i \in 1..Len(sheet) |-> -1]
  /\ now = 0
  /\ req = [r \in {1} |-> IdleReq]
  /\ initializationError \in BOOLEAN
  /\ rangeStart = 2

\* the error codes of ApiSpec: those with a response of their own and a
\* code without one
ApiErrors == StoreErrors \cup {400}

\* the steps of the handlers after the arrival of the request
ApiHandler ==
  \/ \E code \in ApiErrors : GetStudentError(1, code)
  \/ \E code \in ApiErrors : GetStudentsError(1, code)
  \/ \E code \in ApiErrors : PostStudentError(1, code)
  \/ \E code \in ApiErrors : UpdateError(1, code)
  \/ GetStudentFind(1)
  \/ GetStudentsList(1)
  \/ PostStudentExistingStudent(1)
  \/ PostStudentFinalCheck(1)
  \/ PostStudentPreAppendCheck(1)
  \/ PostStudentAbsoluteFinalCheck(1)
  \/ PostStudentAppend(1)
  \/ PostStudentUpdate(1)
  \/ UpdateFind(1)
  \/ UpdateWrite(1)

ApiArrival ==
  \/ \E mobileNo \in ApiLookupInputs : GetStudentBegin(1, mobileNo)
  \/ GetStudentsBegin(1)
  \/ \E body \in ApiPostBodies : PostStudentBegin(1, body)
  \/ \E body \in ApiUpdateBodies : UpdateBegin(1, body, TRUE)
  \/ \E body \in ApiUpdateBodies : UpdateBegin(1, body, FALSE)

ApiNext ==
  \/ Tick
  \/ ApiArrival
  \/ ApiHandler

ApiSpec == ApiInit /\ [][ApiNext]_vars

\* every backing-store call returns or fails: a handler that waits for one
\* takes its next step
FairApiSpec == ApiSpec /\ WF_vars(ApiHandler)

----------------------------------------------------------------------------
(* The configured range: SHEET_RANGE starts at row 1 (the header row), at  *)
(* row 2 (the default) or at row 3, below a row that is not a record.      *)

RangeStarts == {1, 2, 3}

RangePostBodies == {b \in ValidPostBodies : b.mobileNo = Str(<<"7","-">>)}

RangeUpdateBodies == { UpdateBody(N7, "Attempted" :> Bool(TRUE)) }

RangeInit ==
  /\ sheet \in InitSheets \cup {<<HeaderRow, GapRow, LegacyRow>>}
  /\ lastApproval = [i \in 1..Len(sheet) |-> -1]
  /\ now = 0
  /\ req = [r \in {1} |-> IdleReq]
  /\ initializationError = FALSE
  /\ rangeStart \in RangeStarts

RangeNext ==
  \/ GetStudentBegin(1, Str(N7))
  \/ GetStudentFind(1)
  \/ GetStudentsBegin(1)
  \/ GetStudentsList(1)
  \/ \E body \in RangePostBodies : PostStudentBegin(1, body)
  \/ PostStudentExistingStudent(1)
  \/ PostStudentFinalCheck(1)
  \/ PostStudentPreAppendCheck(1)
  \/ PostStudentAbsoluteFinalCheck(1)
  \/ PostStudentAppend(1)
  \/ PostStudentUpdate(1)
  \/ \E body \in RangeUpdateBodies : UpdateBegin(1, body, TRUE)
  \/ UpdateFind(1)
  \/ UpdateWrite(1)

RangeSpec == RangeInit /\ [][RangeNext]_vars

----------------------------------------------------------------------------
(* Yes/No fields: requests for one number whose Paid, Attempted and        *)
(* RetakeAllowed take values of every type and spelling.                   *)

YesNoValues ==
  { Bool(TRUE), Bool(FALSE), Null, Str(<<>>), Str(<<"y">>), Str(No),
    Str(<<"Y","E","S"," ">>), Str(<<" ","y","e","s">>) }

YesNoPostBodies ==
  { PostBody(Str(<<"A">>), Str(N7), Str(<<"X">>), Str(<<"Y">>), Paid, Str(<<"5">>)) :
      Paid \in YesNoValues }

YesNoUpdateBodies ==
  { UpdateBody(N7, k :> value) :
      k \in {"Paid", "Attempted", "RetakeAllowed"}, value \in YesNoValues }

YesNoInit ==
  /\ TypeInit({1})
  /\ ~initializationError

YesNoNext ==
  \/ Tick
  \/ \E body \in YesNoPostBodies : PostStudentBegin(1, body)
  \/ PostStudentExistingStudent(1)
  \/ PostStudentFinalCheck(1)
  \/ PostStudentPreAppendCheck(1)
  \/ PostStudentAbsoluteFinalCheck(1)
  \/ PostStudentAppend(1)
  \/ PostStudentUpdate(1)
  \/ \E body \in YesNoUpdateBodies : UpdateBegin(1, body, TRUE)
  \/ UpdateFind(1)
  \/ UpdateWrite(1)

YesNoSpec == YesNoInit /\ [][YesNoNext]_vars

----------------------------------------------------------------------------
(* An upsert and an approval of one stored record, overlapping: the        *)
(* handlers of POST /student and POST /student/update interleave at their  *)
(* awaits.                                                                 *)

RacePostBodies == {b \in ValidPostBodies : b.mobileNo = Str(<<"7","-">>)}

RaceUpdateBodies == { UpdateBody(N7, "Attempted" :> Bool(TRUE)) }

RaceInit ==
  /\ sheet = <<HeaderRow, LegacyRow>>
  /\ lastApproval = [i \in 1..Len(sheet) |-> -1]
  /\ now = 0
  /\ req = [r \in Slots |-> IdleReq]
  /\ initializationError = FALSE
  /\ rangeStart = 2

RaceNext ==
  \/ Tick
  \/ \E r \in Slots, body \in RacePostBodies : PostStudentBegin(r, body)
  \/ \E r \in Slots : PostStudentExistingStudent(r)
  \/ \E r \in Slots : PostStudentUpdate(r)
  \/ \E r \in Slots, body \in RaceUpdateBodies : UpdateBegin(r, body, TRUE)
  \/ \E r \in Slots : UpdateFind(r)
  \/ \E r \in Slots : UpdateWrite(r)

RaceSpec == RaceInit /\ [][RaceNext]_vars

----------------------------------------------------------------------------
(* The client: the page of the verification dashboard.  Slot 0 of req      *)
(* holds the state of the component (view, student, actionLoading,         *)
(* isSearching) and the POST /student/update requests it has sent and not  *)
(* yet seen answered; the server is whatever answers them.                 *)

\* student === null
NullStudent == [present |-> FALSE, Paid |-> <<>>, Attempted |-> <<>>]

\* the records a lookup can put on the page; Paid is blank in a row that was
\* filled in by hand
ShownStudents ==
  {[present |-> TRUE, Paid |-> Paid, Attempted |-> Attempted] :
     Paid \in {Yes, No, <<>>}, Attempted \in {Yes, No}}

\* the component after login; actionLoading "" is null
Page ==
  [kind |-> "client", view |-> "search", isSearching |-> FALSE,
   student |-> NullStudent, actionLoading |-> "", pending |-> <<>>]

actionButtons(student) ==
  LET buttons ==
        << [id |-> "approveUnpaid",
            shouldRender |-> student.Paid = No /\ student.Attempted = No,
            updates |-> Updates("Paid" :> Str(Yes) @@ "Attempted" :> Str(Yes))],
           [id |-> "approvePaid",
            shouldRender |-> student.Paid = Yes /\ student.Attempted = No,
            updates |-> Updates("Attempted" :> Str(Yes))],
           [id |-> "retake",
            shouldRender |-> student.Attempted = Yes,
            updates |-> Updates("RetakeAllowed" :> Str(Yes))] >>
      filter(button) == button.shouldRender
  IN IF student.present THEN SelectSeq(buttons, filter) ELSE <<>>

\* the component re-renders with the state page
Render(page) ==
  /\ req' = [req EXCEPT ![0] = page]
  /\ UNCHANGED <<sheet, now, initializationError, rangeStart, lastApproval>>

\* the search form is submitted (its button is disabled while a search runs)
handleSearch ==
  /\ req[0].view \in {"search", "success"} /\ ~req[0].isSearching
  /\ Render([req[0] EXCEPT !.isSearching = TRUE, !.view = "search",
                            !.student = NullStudent])

\* the answer of GET /student arrives
handleSearchResponse(outcome, student) ==
  /\ req[0].isSearching
  /\ Render(CASE outcome = "found" ->
                   [req[0] EXCEPT !.isSearching = FALSE, !.student = student,
                                  !.view = "student"]
               [] outcome = "notfound" ->
                   [req[0] EXCEPT !.isSearching = FALSE, !.view = "new"]
               [] OTHER -> [req[0] EXCEPT !.isSearching = FALSE])

\* the button "Search another" of the student view, or "Cancel" of the form
resetToSearch ==
  /\ \/ req[0].view = "student" /\ req[0].student.present
     \/ req[0].view = "new"
  /\ Render([req[0] EXCEPT !.view = "search", !.student = NullStudent,
                            !.actionLoading = ""])

\* the k-th action button is clicked: the request is sent
handleAction(k) ==
  /\ req[0].view = "student" /\ req[0].student.present
  /\ k \in 1..Len(actionButtons(req[0].student))
  /\ req[0].actionLoading = ""
  /\ Len(req[0].pending) < MaxInFlight
  /\ LET action == actionButtons(req[0].student)[k]
     IN Render([req[0] EXCEPT
                  !.actionLoading = action.id,
                  !.pending = Append(@, [id |-> action.id, updates |-> action.updates,
                                         student |-> req[0].student])])

\* the sequence s without its i-th element
Without(s, i) == SubSeq(s, 1, i - 1) \o SubSeq(s, i + 1, Len(s))

\* the record POST /student/update answers for a sent request
Updated(sent) ==
  [sent.student EXCEPT
     !.Paid = IF sent.updates["Paid"] = Undef THEN @ ELSE sent.updates["Paid"].s,
     !.Attempted = IF sent.updates["Attempted"] = Undef THEN @
                   ELSE sent.updates["Attempted"].s]

\* the rest of handleAction: the answer to the i-th pending request arrives
\* (ok, 409 cooldown, another error status, or no answer at all)
handleActionResponse(i, outcome) ==
  /\ i \in 1..Len(req[0].pending)
  /\ Render(IF outcome = "ok"
              THEN [req[0] EXCEPT !.student = Updated(req[0].pending[i]),
                                  !.view = "success", !.actionLoading = "",
                                  !.pending = Without(@, i)]
              ELSE [req[0] EXCEPT !.actionLoading = "", !.pending = Without(@, i)])

ClientInit ==
  /\ sheet = <<HeaderRow>>
  /\ lastApproval = <<-1>>
  /\ now = 0
  /\ req = [r \in {0} |-> Page]
  /\ initializationError = FALSE
  /\ rangeStart = 2

ClientNext ==
  \/ handleSearch
  \/ \E outcome \in {"found", "notfound", "error"}, student \in ShownStudents :
       handleSearchResponse(outcome, student)
  \/ resetToSearch
  \/ \E k \in 1..3 : handleAction(k)
  \/ \E i \in 1..MaxInFlight, outcome \in {"ok", "cooldown", "error", "network"} :
       handleActionResponse(i, outcome)

ClientSpec == ClientInit /\ [][ClientNext]_vars

----------------------------------------------------------------------------
(* Vocabulary of the properties *)

\* the cell of a sheet row under a header
Cell(sh, rowNumber, header) ==
  sh[rowNumber][CHOOSE index \in 1..12 : HEADERS[index] = header]

\* the sheet rows whose stored number normalizes to mobileNo
RowsOf(sh, mobileNo) ==
  {i \in 2..Len(sh) : normalizeMobileNumber(Str(sh[i][2])) = mobileNo}

\* the normalized number of a request
NumberOf(q) == normalizeMobileNumber(q.body.mobileNo)

\* request r takes a step in which no backing-store call fails (the
\* credentials are loaded and the call returns)
Steps(r) == req'[r] # req[r] /\ ~Free(r) /\ req'[r].err = 0 /\ ~initializationError

Responds(r) == Steps(r) /\ req'[r].pc = "done"

----------------------------------------------------------------------------
(* C1: under sequential access the sheet holds at most one row per         *)
(* normalized MobileNo, after any sequence of POST /student and            *)
(* POST /student/update calls.                                             *)

C1_UniqueMobileNo ==
  \A i, j \in 2..Len(sheet) :
    (i # j /\ normalizeMobileNumber(Str(sheet[i][2])) # <<>>)
      => normalizeMobileNumber(Str(sheet[i][2])) # normalizeMobileNumber(Str(sheet[j][2]))

\* two records are stored and an upsert by a differently formatted number
\* has just been answered as an update
C1_Witness ==
  /\ RowCount(sheet) = 2
  /\ req[1].kind = "postStudent" /\ req[1].status = 200
  /\ req[1].res.student["Name"] = Str(<<"B">>)

(* C2: a POST /student whose normalized MobileNo already has a row appends *)
(* no row (the number keeps its single row), is answered 200 with          *)
(* updated:true, and the CreatedAt of the result and of the stored row is  *)
(* the CreatedAt the row had before.                                       *)

C2_UpsertExisting ==
  [][\A r \in DOMAIN req :
       LET rows == RowsOf(sheet, NumberOf(req[r]))
       IN (req[r].kind = "postStudent" /\ Steps(r) /\ rows # {})
            => /\ Cardinality(rows) = 1
               /\ RowsOf(sheet', NumberOf(req[r])) = rows
               /\ Len(sheet') = Len(sheet)
               /\ req'[r].pc \in {"update", "done"}
               /\ req'[r].pc = "done" =>
                    /\ req'[r].status = 200 /\ req'[r].res.flag = "updated"
                    /\ \A i \in rows :
                         /\ req'[r].res.student["CreatedAt"] = Str(Cell(sheet, i, "CreatedAt"))
                         /\ Cell(sheet', i, "CreatedAt") = Cell(sheet, i, "CreatedAt")]_vars

\* an upsert answered as an update, later than the creation of the record
C2_Witness ==
  /\ req[1].kind = "postStudent" /\ req[1].status = 200 /\ req[1].res.flag = "updated"
  /\ req[1].res.student["CreatedAt"] = Str(getCurrentISTTimestamp(0))
  /\ now > 0

(* C3: a POST /student/update on an existing record answers and rewrites   *)
(* the row with the CreatedAt the record had before, whatever the payload  *)
(* carries (a CreatedAt field included).                                   *)

C3_UpdateKeepsCreatedAt ==
  [][\A r \in DOMAIN req :
       (req[r].kind = "update" /\ Responds(r) /\ req'[r].status = 200)
         => /\ RowsOf(sheet, NumberOf(req[r])) # {}
            /\ \A i \in RowsOf(sheet, NumberOf(req[r])) :
                 /\ req'[r].res.student["CreatedAt"] = Str(Cell(sheet, i, "CreatedAt"))
                 /\ Cell(sheet', i, "CreatedAt") = Cell(sheet, i, "CreatedAt")]_vars

\* the payload that carries a CreatedAt (and the name C) has been applied to a
\* record created at instant 0
C3_Witness ==
  /\ req[1].kind = "update" /\ req[1].status = 200
  /\ req[1].res.student["Name"] = Str(<<"C">>)
  /\ req[1].res.student["CreatedAt"] = Str(getCurrentISTTimestamp(0))
  /\ \E i \in 2..Len(sheet) : /\ Cell(sheet, i, "Name") = <<"C">>
                              /\ Cell(sheet, i, "CreatedAt") = getCurrentISTTimestamp(0)

(* C4: under any interleaving of concurrent requests the CreatedAt cell of *)
(* a stored row never changes.                                             *)

C4_CreatedAtImmutable ==
  [][\A i \in 2..Len(sheet) :
       sheet[i] # BlankRow
         => i <= Len(sheet') /\ Cell(sheet', i, "CreatedAt") = Cell(sheet, i, "CreatedAt")]_vars

\* two requests that overlapped have both written a row created earlier
C4_Witness ==
  /\ now > 0
  /\ \A r \in Slots : req[r].status = 200 /\ req[r].writes = 1
  /\ req[1].kind = "postStudent" /\ req[2].kind = "update"
  /\ req[2].res.student["Name"] = Str(<<"C">>)
  /\ \E i \in 2..Len(sheet) : /\ Cell(sheet, i, "CreatedAt") = getCurrentISTTimestamp(0)
                              /\ Cell(sheet, i, "Name") # <<"C">>

(* C5: a valid POST /student whose normalized MobileNo has no row is       *)
(* answered 201 with created:true, appends exactly one row, and a lookup   *)
(* of the number right after returns a record with Attempted Yes,          *)
(* RetakeAllowed No and the CreatedAt recorded and returned at creation.   *)

C5_CreateFresh ==
  [][\A r \in DOMAIN req :
       (req[r].kind = "postStudent" /\ Steps(r) /\ RowsOf(sheet, NumberOf(req[r])) = {})
         => /\ req'[r].pc # "update"
            /\ req'[r].pc # "done" => sheet' = sheet
            /\ req'[r].pc = "done" =>
                 LET found == findStudentByMobile(sheet', rangeStart, req[r].body.mobileNo.s)
                 IN /\ req'[r].status = 201 /\ req'[r].res.flag = "created"
                    /\ RowCount(sheet') = RowCount(sheet) + 1
                    /\ \A i \in 2..Len(sheet) : sheet'[i] = sheet[i]
                    /\ found.found
                    /\ found.f["Attempted"] = Str(Yes)
                    /\ found.f["RetakeAllowed"] = Str(No)
                    /\ found.f["CreatedAt"] = req'[r].res.student["CreatedAt"]
                    /\ parseIsoDate(found.f["CreatedAt"]) = [valid |-> TRUE, time |-> req[r].at]]_vars

\* a creation has been answered, some time after its timestamps were taken
C5_Witness ==
  /\ req[1].kind = "postStudent" /\ req[1].status = 201 /\ req[1].res.flag = "created"
  /\ req[1].res.student["MobileNo"] = Str(N7)
  /\ req[1].res.student["CreatedAt"] = Str(getCurrentISTTimestamp(0))
  /\ now = MaxNow
  /\ RowCount(sheet) = 1

\* the payload of request r asks for a retake
AsksRetake(r) == normalizeYesNo(req[r].body.fields["RetakeAllowed"]) = Str(Yes)

\* the payload of request r sets Attempted to Yes
AsksAttempted(r) == normalizeYesNo(req[r].body.fields["Attempted"]) = Str(Yes)

\* the instant written in the LastApprovedAt cell of a row
ApprovedAt(sh, rowNumber) == parseIsoDate(Str(Cell(sh, rowNumber, "LastApprovedAt")))

(* C6: a retake request on a record approved less than 12 hours ago is     *)
(* answered 409 with remainingHours the remaining time rounded up to whole *)
(* hours, between 1 and 12, and the call writes nothing.                   *)

C6_RetakeRefused ==
  [][\A r \in DOMAIN req :
       (req[r].kind = "update" /\ req[r].pc = "find" /\ Steps(r) /\ AsksRetake(r))
         => \A i \in RowsOf(sheet, NumberOf(req[r])) :
              LET elapsed == now - ApprovedAt(sheet, i).time
                  remaining == TWELVE_HOURS_MS - elapsed
                  hours == req'[r].res.remainingHours
              IN (ApprovedAt(sheet, i).valid /\ 0 <= elapsed /\ elapsed < TWELVE_HOURS_MS)
                   => /\ req'[r].pc = "done" /\ req'[r].status = 409
                      /\ hours * HOUR_MS >= remaining /\ (hours - 1) * HOUR_MS < remaining
                      /\ 1 <= hours /\ hours <= 12
                      /\ sheet' = sheet
                      /\ req'[r].writes = 0]_vars

\* a retake refused half an hour before the end of the cooldown
C6_Witness ==
  /\ req[1].kind = "update" /\ req[1].status = 409
  /\ req[1].res.remainingHours = 1
  /\ \E i \in 2..Len(sheet) : ApprovedAt(sheet, i).valid /\ now - ApprovedAt(sheet, i).time = TWELVE_HOURS_MS - 1

(* C7: a retake request on a record whose LastApprovedAt is at least 12    *)
(* hours old, absent or unparseable is accepted: the stored RetakeAllowed  *)
(* becomes Yes and the stored LastApprovedAt becomes the current time.     *)

C7_RetakeGranted ==
  [][\A r \in DOMAIN req :
       (req[r].kind = "update" /\ Steps(r) /\ AsksRetake(r))
         => \A i \in RowsOf(sheet, NumberOf(req[r])) :
              /\ (req[r].pc = "find"
                    /\ (~ApprovedAt(sheet, i).valid
                          \/ now - ApprovedAt(sheet, i).time >= TWELVE_HOURS_MS))
                   => req'[r].pc = "write" /\ req'[r].at = now /\ sheet' = sheet
              /\ req[r].pc = "write"
                   => /\ req'[r].status = 200
                      /\ Cell(sheet', i, "RetakeAllowed") = Yes
                      /\ ApprovedAt(sheet', i) = [valid |-> TRUE, time |-> req[r].at]
                      /\ req'[r].res.student["LastApprovedAt"] = Str(Cell(sheet', i, "LastApprovedAt"))]_vars

\* a retake granted exactly 12 hours after the creation of the record
C7_Witness ==
  /\ req[1].kind = "update" /\ req[1].status = 200
  /\ req[1].res.student["RetakeAllowed"] = Str(Yes)
  /\ req[1].res.student["CreatedAt"] = Str(getCurrentISTTimestamp(0))
  /\ req[1].res.student["LastApprovedAt"] = Str(getCurrentISTTimestamp(TWELVE_HOURS_MS))

(* C8: a retake is granted only if at least 12 hours have passed since the *)
(* latest approval of the record (its creation, an approval that newly set *)
(* Attempted to Yes, or an earlier granted retake).                        *)

C8_RetakeOnlyAfterCooldown ==
  \A r \in DOMAIN req :
    (req[r].kind = "update" /\ req[r].pc = "write" /\ AsksRetake(r))
      => LET last == lastApproval[req[r].student.rowNumber]
         IN last >= 0 => req[r].at - last >= TWELVE_HOURS_MS

(* C9: an update that sets Attempted to Yes and asks no retake refreshes   *)
(* LastApprovedAt to the current time if and only if the stored Attempted  *)
(* was not Yes; on a record already attempted the stored LastApprovedAt is *)
(* left as it was.                                                         *)

C9_ApprovalRefresh ==
  [][\A r \in DOMAIN req :
       (req[r].kind = "update" /\ req[r].pc = "write" /\ Responds(r)
          /\ AsksAttempted(r) /\ ~AsksRetake(r))
         => \A i \in RowsOf(sheet, NumberOf(req[r])) :
              IF normalizeYesNo(Str(Cell(sheet, i, "Attempted"))) # Str(Yes)
                THEN Cell(sheet', i, "LastApprovedAt") = getCurrentISTTimestamp(req[r].at)
                ELSE Cell(sheet', i, "LastApprovedAt") = Cell(sheet, i, "LastApprovedAt")]_vars

(* C10: POST /student/update never creates a record: without a row for the *)
(* number it answers 404 and leaves the sheet as it is, and no call        *)
(* changes the number of rows.                                             *)

C10_UpdateNeverCreates ==
  [][\A r \in DOMAIN req :
       (req'[r].kind = "update" /\ req'[r] # req[r])
         => /\ Len(sheet') = Len(sheet)
            /\ RowCount(sheet') = RowCount(sheet)
            /\ (req[r].pc = "find" /\ Steps(r) /\ RowsOf(sheet, NumberOf(req[r])) = {})
                 => /\ req'[r].pc = "done" /\ req'[r].status = 404
                    /\ req'[r].res.flag = "notfound"
                    /\ sheet' = sheet]_vars

\* an update for a number without a row was answered 404 while another
\* record is stored
C10_Witness ==
  /\ req[1].kind = "update" /\ req[1].status = 404 /\ req[1].res.flag = "notfound"
  /\ req[1].reads = 1 /\ req[1].writes = 0
  /\ RowCount(sheet) = 1

(* C11: under concurrent access the append of a creation flow is not       *)
(* conditional on the sheet: a request that passed its four lookups        *)
(* appends its row and is answered 201 even when another request has       *)
(* appended a row for the same number in between, so that two requests for *)
(* one new number leave two rows for it.                                   *)

C12_RecheckTurnsToUpdate ==
  [][\A r \in DOMAIN req :
       (req[r].kind = "postStudent" /\ Steps(r))
         => /\ (req[r].pc \in {"finalCheck", "preAppendCheck", "absoluteFinalCheck"}
                  /\ RowsOf(sheet, NumberOf(req[r])) # {})
                 => /\ req'[r].pc = "update"
                    /\ req'[r].student.rowNumber \in RowsOf(sheet, NumberOf(req[r]))
                    /\ sheet' = sheet
            /\ req[r].pc = "update"
                 => /\ req'[r].status = 200 /\ req'[r].res.flag = "updated"
                    /\ Len(sheet') = Len(sheet)
                    /\ \A i \in 2..Len(sheet) :
                         i # req[r].student.rowNumber => sheet'[i] = sheet[i]]_vars

(* C13: a lookup (GET /student) whose raw number normalizes to the empty   *)
(* string, a non-empty string without a digit included, is answered 400    *)
(* as invalid input: it does not go on to search the sheet.                *)

C13_LookupRejectsEmptyNumber ==
  [][\A r \in DOMAIN req :
       (req'[r].kind = "getStudent" /\ req'[r] # req[r]
          /\ req'[r].err = 0 /\ ~initializationError)
         => /\ req'[r].pc = "find"
                 => normalizeMobileNumber(req'[r].body.mobileNo) # <<>>
            /\ (req[r].pc = "find" /\ normalizeMobileNumber(req[r].body.mobileNo) = <<>>)
                 => req'[r].status = 400 /\ req'[r].reads = 0]_vars

(* C14: normalizeMobileNumber returns, for every string, the subsequence   *)
(* of its digit characters in order (no other character survives, no digit *)
(* is dropped), and applying it to its own result changes nothing.         *)

C14_NormalizeDigits ==
  \A r \in DOMAIN req :
    req[r].kind = "normalize"
      => LET s == req[r].body.mobileNo.s
             once == req[r].out["MobileNo"].s
             twice == req[r].res.student["MobileNo"].s
             positions == {i \in 1..Len(s) :
                             s[i] \in {"0","1","2","3","4","5","6","7","8","9"}}
             kth(k) == CHOOSE i \in positions :
                         Cardinality({j \in positions : j < i}) = k - 1
         IN /\ req[r].pc \in {"once", "twice"}
                 => /\ Len(once) = Cardinality(positions)
                    /\ \A k \in 1..Len(once) : once[k] = s[kth(k)]
            /\ req[r].pc = "twice" => twice = once

\* a string with a character between two digits has been normalized twice
C14_Witness ==
  /\ req[1].kind = "normalize" /\ req[1].pc = "twice"
  /\ req[1].body.mobileNo = Str(<<"7", "-", "0">>)
  /\ req[1].out["MobileNo"] = Str(<<"7", "0">>)
  /\ req[1].res.student["MobileNo"] = Str(<<"7", "0">>)

(* C15: every row written by POST /student or POST /student/update, by an  *)
(* append or by an update in place, stores as MobileNo the digits-only     *)
(* normalized form of the number of the request, whatever the formatting   *)
(* of that number and whatever MobileNo the update payload carries; the    *)
(* write touches no other row.                                             *)

C15_StoredNumberNormalized ==
  [][\A r \in DOMAIN req :
       (req[r].kind \in {"postStudent", "update"} /\ Steps(r)
          /\ req'[r].writes > req[r].writes)
         => LET number == NumberOf(req[r])
                row == IF req[r].pc = "append" THEN Len(sheet')
                       ELSE req[r].student.rowNumber
            IN /\ \A k \in 1..Len(number) :
                    number[k] \in {"0","1","2","3","4","5","6","7","8","9"}
               /\ Cell(sheet', row, "MobileNo") = number
               /\ req'[r].res.student["MobileNo"] = Str(number)
               /\ \A i \in 1..Len(sheet') :
                    (i > Len(sheet) \/ sheet'[i] # sheet[i]) => i = row]_vars

\* the record created for "7-" is stored under 7 next to the record of 8,
\* which the update whose payload carries the MobileNo "9-" has just rewritten
C15_Witness ==
  /\ req[1].kind = "update" /\ req[1].status = 200
  /\ req[1].res.student["MobileNo"] = Str(N8)
  /\ \E i, j \in 2..Len(sheet) :
       /\ Cell(sheet, i, "MobileNo") = N7 /\ Cell(sheet, i, "Name") = <<"B">>
       /\ Cell(sheet, j, "MobileNo") = N8

\* one of Name, MobileNo, District, State, Paid is missing from the body
MissingField(body) ==
  \E k \in {"Name", "MobileNo", "District", "State", "Paid"} : body.fields[k] = Undef

\* the FeeAmount of the body is missing or empty
MissingFee(body) == body.fields["FeeAmount"] \in {Undef, Str(<<>>)}

(* C16: POST /student answers 400 whenever one of Name, MobileNo,          *)
(* District, State, Paid, FeeAmount is missing, FeeAmount is empty or      *)
(* MobileNo normalizes to the empty string; the error of a missing or      *)
(* empty FeeAmount differs from the error of the other missing fields; a   *)
(* request answered 400 has read and written nothing.                      *)

C16_ValidationRejects ==
  [][\A r \in DOMAIN req :
       (req'[r].kind = "postStudent" /\ req'[r] # req[r])
         => /\ Free(r)
                 => LET body == req'[r].body
                    IN (MissingField(body) \/ MissingFee(body)
                          \/ normalizeMobileNumber(body.fields["MobileNo"]) = <<>>)
                         => /\ req'[r].pc = "done" /\ req'[r].status = 400
                            /\ MissingField(body) => req'[r].res.error = "required"
                            /\ (MissingFee(body) /\ ~MissingField(body))
                                 => req'[r].res.error = "FeeAmount"
            /\ req'[r].status = 400
                 => req'[r].reads = 0 /\ req'[r].writes = 0 /\ sheet' = sheet]_vars

\* a body without FeeAmount was refused while the sheet holds a record and
\* the credentials are missing
C16_Witness ==
  /\ req[1].kind = "postStudent" /\ req[1].pc = "done" /\ req[1].status = 400
  /\ req[1].res.error = "FeeAmount"
  /\ req[1].body.fields["FeeAmount"] = Undef
  /\ req[1].reads = 0 /\ req[1].writes = 0
  /\ RowCount(sheet) = 1
  /\ initializationError

(* C17: every request makes its reads of the backing store one after the   *)
(* other and then at most one write: no request writes twice, no request   *)
(* reads after it wrote, and the sheet changes only by that write.         *)

C17_ReadsThenOneWrite ==
  [][\A r \in DOMAIN req :
       (~Free(r) /\ req'[r] # req[r])
         => /\ req'[r].writes \in {req[r].writes, req[r].writes + 1}
            /\ req'[r].reads \in {req[r].reads, req[r].reads + 1}
            /\ req'[r].writes <= 1
            /\ req'[r].reads > req[r].reads
                 => req[r].writes = 0 /\ req'[r].writes = 0 /\ sheet' = sheet
            /\ req'[r].writes > req[r].writes => req'[r].pc = "done"
            /\ sheet' # sheet => req'[r].writes > req[r].writes]_vars

\* a creation answered after four reads and one write, next to an older record
C17_Witness ==
  /\ req[1].kind = "postStudent" /\ req[1].pc = "done" /\ req[1].status = 201
  /\ req[1].reads = 4 /\ req[1].writes = 1
  /\ RowCount(sheet) = 2

\* the fields of a row in the order of the columns A to L
FieldOrder ==
  <<"Name", "MobileNo", "District", "State", "Paid", "FeeAmount", "Attempted",
    "RetakeAllowed", "LastApprovedAt", "_columnJ", "_columnK", "CreatedAt">>

(* C18: every write to the sheet (append or update in place, by            *)
(* POST /student and by POST /student/update) carries exactly 12 values in *)
(* the order Name, MobileNo, District, State, Paid, FeeAmount, Attempted,  *)
(* RetakeAllowed, LastApprovedAt, reserved J, reserved K, CreatedAt: the   *)
(* values of the record the call answers with; no row of another width is  *)
(* ever in the sheet.                                                      *)

C19_ReservedPreserved ==
  [][\A i \in 2..Len(sheet) :
       /\ i <= Len(sheet')
       /\ sheet'[i][10] = sheet[i][10]
       /\ sheet'[i][11] = sheet[i][11]]_vars

(* C20: no operation deletes or blanks a record: the number of rows never  *)
(* decreases, it grows by exactly one on a POST /student answered 201 and  *)
(* is unchanged by every other request, and a number that a lookup finds   *)
(* is found by every later lookup.                                         *)

C20_NoRecordLost ==
  [][/\ Len(sheet') >= Len(sheet)
     /\ \A i \in 2..Len(sheet) : sheet[i] # BlankRow => sheet'[i] # BlankRow
     /\ RowCount(sheet') \in {RowCount(sheet), RowCount(sheet) + 1}
     /\ RowCount(sheet') = RowCount(sheet) + 1
          <=> \E r \in DOMAIN req :
                /\ req[r].kind = "postStudent" /\ ~Free(r)
                /\ req'[r].pc = "done" /\ req'[r].status = 201
     /\ sheet' # sheet
          => \A mobileNo \in {N7, N8, <<"7", "-">>, <<" ", "8", " ">>} :
               findStudentByMobile(sheet, rangeStart, mobileNo).found
                 => findStudentByMobile(sheet', rangeStart, mobileNo).found]_vars

\* both records are stored and a lookup at the end of the behaviour has found
\* the record that was in the sheet from the start
C20_Witness ==
  /\ req[1].kind = "getStudent" /\ req[1].status = 200
  /\ req[1].res.student["_columnJ"] = Str(<<"j">>)
  /\ req[1].res.student["Name"] = Str(<<"C">>)
  /\ RowCount(sheet) = 2
  /\ now = MaxNow

----------------------------------------------------------------------------
(* C21: when the credentials failed to load at startup, every request that *)
(* passes the input validation of its endpoint is answered with HTTP 500   *)
(* without a backing-store call, a request that fails the validation is    *)
(* answered with HTTP 400, and the failure persists: initializationError   *)
(* is never cleared.                                                       *)

\* the messages of the validation refusals
ValidationErrors == {"required", "FeeAmount", "Invalid mobile number"}

C21_CredentialsError ==
  [][initializationError =>
       /\ initializationError'
       /\ sheet' = sheet
       /\ \A r \in DOMAIN req :
            (req'[r] # req[r] /\ req'[r].pc = "done") =>
               /\ req'[r].reads = 0 /\ req'[r].writes = 0
               /\ \/ req'[r].status = 500 /\ req'[r].res.error = "credentials"
                  \/ req'[r].status = 400 /\ req'[r].res.error \in ValidationErrors]_vars

C21_Witness ==
  /\ initializationError
  /\ req[1].kind = "getStudents" /\ req[1].pc = "done" /\ req[1].status = 500

\* C21 as stated: with the credentials missing every response is a 500
C21_EveryRequest500 ==
  [][initializationError =>
       \A r \in DOMAIN req :
         (req'[r] # req[r] /\ req'[r].pc = "done") => req'[r].status = 500]_vars

----------------------------------------------------------------------------
(* C22: in every endpoint a backing-store call that fails with code 403    *)
(* is answered with HTTP 403, with code 404 with HTTP 404 and with any     *)
(* other code with HTTP 500; the failed call is not retried (the handler   *)
(* returns on that step, with no further round trip), and a request with a *)
(* failed call has written nothing: the sheet is as it was.                *)

C22_StoreFailure ==
  [][\A r \in DOMAIN req :
       (req'[r] # req[r] /\ req'[r].err # 0) =>
          /\ req[r].err = 0
          /\ req'[r].pc = "done"
          /\ req'[r].status = (IF req'[r].err \in {403, 404} THEN req'[r].err ELSE 500)
          /\ req'[r].reads = req[r].reads
          /\ req'[r].writes = 0
          /\ sheet' = sheet]_vars

C22_Witness ==
  /\ req[1].kind = "postStudent" /\ req[1].pc = "done"
  /\ req[1].err = 400 /\ req[1].status = 500 /\ req[1].reads = 3

----------------------------------------------------------------------------
(* C23: provided each backing-store call returns or fails, every request   *)
(* in progress reaches its response, and by then it has made at most 4     *)
(* reads and 1 write (POST /student), 1 read and 1 write (POST             *)
(* /student/update) or 1 read and no write (the GET endpoints).            *)

\* the reads and the writes an endpoint may make
MaxReads(kind) == IF kind = "postStudent" THEN 4 ELSE 1
MaxWrites(kind) == IF kind \in {"postStudent", "update"} THEN 1 ELSE 0

C23_Terminates ==
  /\ [](req[1].reads <= MaxReads(req[1].kind) /\ req[1].writes <= MaxWrites(req[1].kind))
  /\ (req[1].pc \notin {"idle", "done"}) ~> (req[1].pc = "done")

C23_Witness ==
  /\ req[1].kind = "postStudent" /\ req[1].pc = "done"
  /\ req[1].status = 201 /\ req[1].reads = 4 /\ req[1].writes = 1

----------------------------------------------------------------------------
(* C24: the write of a POST /student on an existing number changes, in the *)
(* row of that number and in no other row, only Name, District, State,     *)
(* Paid and FeeAmount (to the trimmed and normalized values of the body)   *)
(* and MobileNo (to its normalized form): Attempted, RetakeAllowed,        *)
(* LastApprovedAt, the reserved columns and CreatedAt are as before, and   *)
(* the write counts as no approval.                                        *)

C24_UpsertFrame ==
  [][\A r \in DOMAIN req :
       (req[r].kind = "postStudent" /\ req[r].pc = "update" /\ Responds(r)
          /\ req'[r].status = 200)
         => LET i == req[r].student.rowNumber
                body == req[r].body.fields
            IN /\ RowsOf(sheet, NumberOf(req[r])) = {i}
               /\ \A h \in {"Attempted", "RetakeAllowed", "LastApprovedAt", "CreatedAt"} :
                    Cell(sheet', i, h) = Cell(sheet, i, h)
               /\ sheet'[i][10] = sheet[i][10] /\ sheet'[i][11] = sheet[i][11]
               /\ \A h \in {"Name", "District", "State", "FeeAmount"} :
                    Cell(sheet', i, h) = Trim(body[h].s)
               /\ Cell(sheet', i, "Paid") = normalizeYesNo(body["Paid"]).s
               /\ Cell(sheet', i, "MobileNo") = NumberOf(req[r])
               /\ Len(sheet') = Len(sheet)
               /\ \A j \in 1..Len(sheet) : j # i => sheet'[j] = sheet[j]
               /\ lastApproval' = lastApproval]_vars

\* the hand-entered record, granted a retake at the last instant, has been
\* upserted under a new name: the retake and its reserved value are in place
C24_Witness ==
  /\ req[1].kind = "postStudent" /\ req[1].status = 200 /\ req[1].res.flag = "updated"
  /\ \E i \in 2..Len(sheet) :
       /\ Cell(sheet, i, "Name") = <<"B">> /\ Cell(sheet, i, "Paid") = No
       /\ Cell(sheet, i, "Attempted") = No /\ Cell(sheet, i, "RetakeAllowed") = Yes
       /\ Cell(sheet, i, "LastApprovedAt") = getCurrentISTTimestamp(MaxNow)
       /\ sheet[i][10] = <<"j">> /\ Cell(sheet, i, "CreatedAt") = <<>>

----------------------------------------------------------------------------
(* C25: for every configured range (from row 1 with the header, from row 2 *)
(* or from a later row) the lookup returns the first row of the range      *)
(* whose normalized number equals the normalized query, with the sheet row *)
(* that holds it, so that the write in place that follows rewrites that    *)
(* row and no other.                                                       *)

\* the sheet rows of the configured range that can hold a record
DataRows(sh, start) == (IF start = 1 THEN 2 ELSE start)..Len(sh)

\* the first row of the range whose number normalizes to mobileNo (0: none)
FirstRowOf(sh, start, mobileNo) ==
  LET rows == {i \in DataRows(sh, start) :
                 normalizeMobileNumber(Str(sh[i][2])) = mobileNo}
  IN IF rows = {} THEN 0 ELSE CHOOSE i \in rows : \A j \in rows : i <= j

C25_LookupRow ==
  [][\A r \in DOMAIN req :
       (Steps(r) /\ req[r].kind \in {"postStudent", "update"})
         => LET first == FirstRowOf(sheet, rangeStart, NumberOf(req[r]))
            IN /\ (req'[r].student.found /\ ~req[r].student.found)
                    => /\ req'[r].student.rowNumber = first
                       /\ req'[r].student.f = mapRowToStudent(sheet[first], first).f
               /\ (req'[r].writes > req[r].writes /\ req[r].pc # "append")
                    => \A i \in 1..Len(sheet') :
                         (i > Len(sheet) \/ sheet'[i] # sheet[i]) => i = first]_vars

----------------------------------------------------------------------------
(* C26: a POST /student/update that is neither a granted retake nor an     *)
(* approval that newly sets Attempted to Yes leaves the LastApprovedAt of  *)
(* the record as it was, whatever its payload.                             *)

C26_LastApprovedAtKept ==
  [][\A r \in DOMAIN req :
       (req[r].kind = "update" /\ req[r].pc = "write" /\ Responds(r) /\ ~AsksRetake(r))
         => \A i \in RowsOf(sheet, NumberOf(req[r])) :
              ~(AsksAttempted(r) /\ normalizeYesNo(Str(Cell(sheet, i, "Attempted"))) # Str(Yes))
                => Cell(sheet', i, "LastApprovedAt") = Cell(sheet, i, "LastApprovedAt")]_vars

----------------------------------------------------------------------------
(* C27: the Paid, Attempted and RetakeAllowed cells of a record created by *)
(* POST /student are each exactly Yes or No after any sequence of          *)
(* POST /student and POST /student/update calls, whatever values the       *)
(* payloads carry; normalizeYesNo maps the boolean true and every case and *)
(* whitespace variant of "yes" to Yes, every other value to No, and its    *)
(* own results to themselves.                                              *)

C27_YesNoStored ==
  /\ \A i \in 2..Len(sheet) :
       Cell(sheet, i, "CreatedAt") # <<>>
         => \A h \in {"Paid", "Attempted", "RetakeAllowed"} : Cell(sheet, i, h) \in {Yes, No}
  /\ \A r \in DOMAIN req :
       \A h \in {"Paid", "Attempted", "RetakeAllowed"} :
         LET value == req[r].body.fields[h]
             stored == normalizeYesNo(value)
         IN /\ stored \in {Str(Yes), Str(No)}
            /\ normalizeYesNo(stored) = stored
            /\ stored = Str(Yes)
                 <=> \/ value = Bool(TRUE)
                     \/ value.t = "string"
                          /\ Len(Trim(value.s)) = 3
                          /\ Trim(value.s)[1] \in {"y", "Y"}
                          /\ Trim(value.s)[2] \in {"e", "E"}
                          /\ Trim(value.s)[3] \in {"s", "S"}

\* a created record (Attempted Yes) has been rewritten by an update whose
\* Attempted is the string "y": the cell holds No
C27_Witness ==
  /\ req[1].kind = "update" /\ req[1].status = 200
  /\ \E i \in 2..Len(sheet) :
       /\ Cell(sheet, i, "CreatedAt") # <<>>
       /\ Cell(sheet, i, "Attempted") = No
       /\ Cell(sheet, i, "Paid") = Yes

----------------------------------------------------------------------------
(* C28: when a POST /student on an existing number and a POST              *)
(* /student/update on the same number have both succeeded, overlapping or  *)
(* not, the row holds the Name, District, State, Paid and FeeAmount of the *)
(* upsert and the change of the update (Attempted Yes with the             *)
(* LastApprovedAt the update answered).                                    *)

C28_NoLostUpdate ==
  \A r1, r2 \in DOMAIN req :
    (/\ req[r1].kind = "postStudent" /\ req[r1].pc = "done" /\ req[r1].status = 200
     /\ req[r2].kind = "update" /\ req[r2].pc = "done" /\ req[r2].status = 200)
      => \A i \in RowsOf(sheet, N7) :
           /\ \A h \in {"Name", "District", "State", "Paid", "FeeAmount"} :
                Cell(sheet, i, h) = Trim(req[r1].res.student[h].s)
           /\ Cell(sheet, i, "Attempted") = Yes
           /\ Cell(sheet, i, "LastApprovedAt") # <<>>

----------------------------------------------------------------------------
(* C29: every record in the answer of GET /students carries the rowNumber  *)
(* that the lookup of GET /student returns for it, which is the sheet row  *)
(* that holds the record, also behind blank or incomplete rows and for the *)
(* default range from row 2.                                               *)

C29_SameRowNumber ==
  \A r \in DOMAIN req :
    (req[r].kind = "getStudents" /\ req[r].pc = "done" /\ req[r].status = 200)
      => \A k \in 1..Len(req[r].res.students) :
           LET student == req[r].res.students[k]
               lookup == findStudentByMobile(sheet, rangeStart, student.f["MobileNo"].s)
           IN /\ lookup.found
              /\ student.rowNumber = lookup.rowNumber
              /\ student.rowNumber <= Len(sheet)
              /\ mapRowToStudent(sheet[student.rowNumber], student.rowNumber) = student

----------------------------------------------------------------------------
(* C30: in the client, a displayed student whose Paid and Attempted are    *)
(* each Yes or No is offered exactly one action: an approve action         *)
(* (sending Attempted Yes, and Paid Yes as well when unpaid) if and only   *)
(* if Attempted is No, the retake action (sending RetakeAllowed Yes) if    *)
(* and only if Attempted is Yes; while an action request is in flight no   *)
(* second one is started; and every answer to an action request (success,  *)
(* 409 cooldown, error) leaves the in-flight marker cleared.               *)

\* the page shows the student view for a record with Yes/No fields
OffersActions(page) ==
  /\ page.view = "student" /\ page.student.present
  /\ page.student.Paid \in {Yes, No} /\ page.student.Attempted \in {Yes, No}

C30_OneActionAtATime ==
  /\ [](OffersActions(req[0]) =>
          LET student == req[0].student
              offered == actionButtons(student)
              approve == IF student.Paid = No
                           THEN Updates("Paid" :> Str(Yes) @@ "Attempted" :> Str(Yes))
                           ELSE Updates("Attempted" :> Str(Yes))
          IN /\ Len(offered) = 1
             /\ student.Attempted = No <=> offered[1].updates = approve
             /\ student.Attempted = Yes
                  <=> offered[1].updates = Updates("RetakeAllowed" :> Str(Yes)))
  /\ [][/\ Len(req'[0].pending) > Len(req[0].pending)
             => req[0].pending = <<>> /\ req'[0].actionLoading # ""
        /\ Len(req'[0].pending) < Len(req[0].pending)
             => req'[0].actionLoading = ""]_vars

====
